---- MODULE Spec2Model ----
(***************************************************************************)
(* A model of src/record/field.rs of dbase-rs: the calendar codecs (Date,  *)
(* Julian day numbers), the memo reader (three memo file layouts) and the  *)
(* field value codec (FieldValue::read_from / write_to).                   *)
(*                                                                         *)
(* Bytes are integers 0..255, byte strings are sequences of bytes, text    *)
(* (a Rust String) is a sequence of Unicode scalar values.  A Result is a  *)
(* record whose field "tag" is "Ok" or "Err"; an Option is a record whose  *)
(* field "tag" is "Some" or "None".                                        *)
(***************************************************************************)
EXTENDS Integers, Sequences, FiniteSets, TLC

VARIABLES
    pc,            \* the caller's position: which operation ran last
    args,          \* Date machine: the (day, month, year) the caller holds
    new_result,    \* Date machine: what Date::new returned
    jdn,           \* Date machine: what to_julian_day_number returned
    gregorian,     \* Date machine: what julian_day_number_to_gregorian_date returned
    value,         \* field machine: the FieldValue the caller writes
    dst,           \* field machine: the bytes written to the destination
    field_info,    \* field machine: the column's FieldInfo (field_type, field_length)
    source,        \* field machine: the record's bytes
    position,      \* field machine: the cursor of the record's byte source
    read_result,   \* field machine: what FieldValue::read_from returned
    memo_type,     \* memo machine: the layout the memo file is opened as
    memo_file,     \* memo machine: the bytes of the memo stream
    memo_reader,   \* memo machine: Option<MemoReader>, the stream aside
    memo_result,   \* memo machine: what the last MemoReader call returned
    last_call,     \* memo machine: the last read_data_at call's index and I/O
    calls,         \* memo machine: how many read_data_at calls were made
    time_arg,      \* Time machine: the time word or the Time the caller holds
    time,          \* Time machine: what Time::from_word returned
    time_word      \* Time machine: what to_time_word returned

dateVars == <<args, new_result, jdn, gregorian>>

fieldVars == <<value, dst, field_info, source, position, read_result>>

memoVars == <<memo_type, memo_file, memo_reader, memo_result, last_call, calls>>

timeVars == <<time_arg, time, time_word>>

vars == <<pc, dateVars, fieldVars, memoVars, timeVars>>

(***************************************************************************)
(* Rust integer arithmetic                                                 *)
(***************************************************************************)
\* Every intermediate value of the Date codecs lies in 0..2^31-1 on the
\* model's inputs (year >= 1, so no u32 subtraction goes below zero), so the
\* u32 and i32 operations are the mathematical ones; TLC's own integers are
\* 32-bit and TLC stops with an overflow error if a value ever leaves them.

\* Rust's `/` on signed integers truncates toward zero (TLA+'s \div floors).
TruncDiv(a, b) ==
    IF a >= 0 THEN a \div b ELSE -((-a) \div b)

\* Rust's `%` on signed integers takes the sign of the dividend.
TruncRem(a, b) == a - b * TruncDiv(a, b)

(***************************************************************************)
(* Option / Result                                                         *)
(***************************************************************************)
None == [tag |-> "None"]

Some(v) == [tag |-> "Some", v |-> v]

Ok(v) == [tag |-> "Ok", v |-> v]

Err(e) == [tag |-> "Err", e |-> e]

NoResult == [tag |-> "NotRun"]

(***************************************************************************)
(* Bytes and text.  A String / &str is its UTF-8 bytes, as in Rust.        *)
(***************************************************************************)
RECURSIVE Flatten(_)
Flatten(ss) == IF ss = <<>> THEN <<>> ELSE Head(ss) \o Flatten(Tail(ss))

Repeat(b, n) == [i \in 1..n |-> b]

\* char::encode_utf8: the UTF-8 bytes of one Unicode scalar value.
Utf8Encode(cp) ==
    IF cp < 128 THEN <<cp>>
    ELSE IF cp < 2048 THEN <<192 + (cp \div 64), 128 + (cp % 64)>>
    ELSE IF cp < 65536
        THEN <<224 + (cp \div 4096), 128 + ((cp \div 64) % 64), 128 + (cp % 64)>>
    ELSE <<240 + (cp \div 262144), 128 + ((cp \div 4096) % 64),
           128 + ((cp \div 64) % 64), 128 + (cp % 64)>>

\* The bytes of the string with these chars.
StringOf(cps) == Flatten([i \in 1..Len(cps) |-> Utf8Encode(cps[i])])

SafeGet(bs, i) == IF i <= Len(bs) THEN bs[i] ELSE 0

IsCont(b) == b \in 128..191

\* core::str's validation of the char starting at byte i: whether it is
\* well formed, and how many bytes it (or the maximal ill-formed part) takes.
Utf8Step(bs, i) ==
    LET b == bs[i]
        b2 == SafeGet(bs, i + 1)
        b3 == SafeGet(bs, i + 2)
        b4 == SafeGet(bs, i + 3)
        good(n) == [ok |-> TRUE, n |-> n]
        bad(n) == [ok |-> FALSE, n |-> n]
    IN  IF b < 128 THEN good(1)
        ELSE IF b \in 194..223
            THEN (IF IsCont(b2) THEN good(2) ELSE bad(1))
        ELSE IF b \in 224..239
            THEN (IF \/ (b = 224 /\ b2 \in 160..191)
                     \/ (b \in 225..236 /\ b2 \in 128..191)
                     \/ (b = 237 /\ b2 \in 128..159)
                     \/ (b \in 238..239 /\ b2 \in 128..191)
                     THEN (IF IsCont(b3) THEN good(3) ELSE bad(2))
                     ELSE bad(1))
        ELSE IF b \in 240..244
            THEN (IF \/ (b = 240 /\ b2 \in 144..191)
                     \/ (b \in 241..243 /\ b2 \in 128..191)
                     \/ (b = 244 /\ b2 \in 128..143)
                     THEN (IF IsCont(b3)
                               THEN (IF IsCont(b4) THEN good(4) ELSE bad(3))
                               ELSE bad(2))
                     ELSE bad(1))
        ELSE bad(1)

\* U+FFFD REPLACEMENT CHARACTER, as UTF-8.
Replacement == <<239, 191, 189>>

\* String::from_utf8_lossy: well-formed chars are kept, each maximal
\* ill-formed part becomes U+FFFD.
RECURSIVE LossyFrom(_, _)
LossyStep(bs, i, st) ==
    (IF st.ok THEN SubSeq(bs, i, i + st.n - 1) ELSE Replacement)
        \o LossyFrom(bs, i + st.n)

LossyFrom(bs, i) ==
    IF i > Len(bs) THEN <<>> ELSE LossyStep(bs, i, Utf8Step(bs, i))

\* Text that is all ASCII is well formed as it stands.
from_utf8_lossy(bs) ==
    IF \A i \in 1..Len(bs) : bs[i] < 128 THEN bs ELSE LossyFrom(bs, 1)

\* The chars of a string, each as its own bytes (str::chars / char_indices).
RECURSIVE CharsFrom(_, _)
CharsStep(s, i, n) == <<SubSeq(s, i, i + n - 1)>> \o CharsFrom(s, i + n)

CharsFrom(s, i) ==
    IF i > Len(s) THEN <<>> ELSE CharsStep(s, i, Utf8Step(s, i).n)

Chars(s) == CharsFrom(s, 1)

\* The scalar value of one char given as its UTF-8 bytes.
CodePoint(c) ==
    IF Len(c) = 1 THEN c[1]
    ELSE IF Len(c) = 2 THEN (c[1] - 192) * 64 + (c[2] - 128)
    ELSE IF Len(c) = 3
        THEN (c[1] - 224) * 4096 + (c[2] - 128) * 64 + (c[3] - 128)
    ELSE (c[1] - 240) * 262144 + (c[2] - 128) * 4096
             + (c[3] - 128) * 64 + (c[4] - 128)

\* char::is_whitespace: the Unicode White_Space property.
is_whitespace(cp) ==
    \/ cp \in 9..13
    \/ cp \in {32, 133, 160, 5760, 8232, 8233, 8239, 8287, 12288}
    \/ cp \in 8192..8202

RECURSIVE TrimStart(_)
TrimStart(cs) ==
    IF cs # <<>> /\ is_whitespace(CodePoint(Head(cs)))
        THEN TrimStart(Tail(cs)) ELSE cs

RECURSIVE TrimEnd(_)
TrimEnd(cs) ==
    IF cs # <<>> /\ is_whitespace(CodePoint(cs[Len(cs)]))
        THEN TrimEnd(SubSeq(cs, 1, Len(cs) - 1)) ELSE cs

\* str::trim
trim(s) == Flatten(TrimEnd(TrimStart(Chars(s))))

\* value.chars().all(|c| c == ch) for an ASCII ch
chars_all(s, ch) == \A i \in 1..Len(s) : s[i] = ch

IsDigit(b) == b \in 48..57

AllDigits(s) == \A i \in 1..Len(s) : IsDigit(s[i])

RECURSIVE DigitsValue(_)
DigitsValue(s) ==
    IF s = <<>> THEN 0
    ELSE 10 * DigitsValue(SubSeq(s, 1, Len(s) - 1)) + (s[Len(s)] - 48)

\* str::parse::<u32>: an optional '+', then one or more ASCII digits.  The
\* model's texts have at most 9 digits, below the overflow error of u32.
parse_u32(s) ==
    LET digits == IF s # <<>> /\ s[1] = 43 THEN Tail(s) ELSE s
    IN  IF digits = <<>> \/ ~AllDigits(digits)
            THEN Err("ParseIntError")
            ELSE Ok(DigitsValue(digits))

\* The decimal digits of n (u32's Display).
RECURSIVE to_string_u32(_)
to_string_u32(n) ==
    IF n < 10 THEN <<48 + n>>
    ELSE to_string_u32(n \div 10) \o <<48 + (n % 10)>>

\* format!("{:0w$}", n): zero-padded on the left to at least w digits.
PadTo(ds, w) == IF Len(ds) >= w THEN ds ELSE Repeat(48, w - Len(ds)) \o ds

FormatPadded(n, w) == PadTo(to_string_u32(n), w)

\* str::parse::<f64> / parse::<f32>, as far as it accepts or rejects: an
\* optional sign, then "inf", "NaN", or digits with an optional '.' and an
\* optional exponent, with a digit before or after the '.'.  The value is
\* kept as the text it was parsed from.
IsDecimal(s) ==
    \E i \in 0..Len(s), j \in 0..Len(s) :
        /\ i <= j
        /\ AllDigits(SubSeq(s, 1, i))
        /\ \/ j = i
           \/ (j > i /\ s[i + 1] = 46 /\ AllDigits(SubSeq(s, i + 2, j)))
        /\ (i > 0 \/ j > i + 1)
        /\ \/ j = Len(s)
           \/ /\ j < Len(s)
              /\ s[j + 1] \in {69, 101}
              /\ LET ex == SubSeq(s, j + 2, Len(s))
                     exd == IF ex # <<>> /\ ex[1] \in {43, 45} THEN Tail(ex) ELSE ex
                 IN  exd # <<>> /\ AllDigits(exd)

parse_float(s) ==
    LET body == IF s # <<>> /\ s[1] \in {43, 45} THEN Tail(s) ELSE s
    IN  IF body \in {<<105, 110, 102>>, <<78, 97, 78>>} \/ IsDecimal(body)
            THEN Ok([text |-> s])
            ELSE Err("ParseFloatError")

(***************************************************************************)
(* Byte streams (Read + Seek)                                              *)
(***************************************************************************)
EofError == Err("Io(UnexpectedEof)")

OtherIoError == Err("Io(Other)")

Panic == [tag |-> "Panic"]

\* Whether stream src holds n bytes from the 0-based offset off.
Available(src, off, n) == off + n <= Len(src)

BytesAt(src, off, n) == SubSeq(src, off + 1, off + n)

\* What is left of the stream from offset off, at most n bytes.
Remaining(src, off, n) ==
    IF off >= Len(src) THEN <<>>
    ELSE SubSeq(src, off + 1, IF off + n <= Len(src) THEN off + n ELSE Len(src))

\* byteorder's LittleEndian / BigEndian: the unsigned value of the bytes bs.
RECURSIVE LittleEndian(_)
LittleEndian(bs) ==
    IF bs = <<>> THEN 0 ELSE Head(bs) + 256 * LittleEndian(Tail(bs))

RECURSIVE BigEndian(_)
BigEndian(bs) ==
    IF bs = <<>> THEN 0
    ELSE bs[Len(bs)] + 256 * BigEndian(SubSeq(bs, 1, Len(bs) - 1))

\* ReadBytesExt::read_u16 / read_u32 at offset off: the value, or end of stream.
ReadUint(src, off, n, big) ==
    IF Available(src, off, n)
        THEN Ok(IF big THEN BigEndian(BytesAt(src, off, n))
                       ELSE LittleEndian(BytesAt(src, off, n)))
        ELSE EofError

\* The same read on a stream the environment may fail: io.fault = "read"
\* makes the stream's reads fail with an error that is not end of stream.
ReadUintIo(src, off, n, big, io) ==
    IF io.fault = "read" THEN OtherIoError ELSE ReadUint(src, off, n, big)

(***************************************************************************)
(* MemoHeader, MemoReader                                                  *)
(***************************************************************************)
DefaultBlockSize == 512

\* The dBase arm of MemoHeader::read_from: a stored 0 stands for 512.
DbaseBlockSize(v) ==
    IF v.tag = "Err" THEN v
    ELSE Ok(IF v.v = 0 THEN DefaultBlockSize ELSE v.v)

\* The block size field.  In the FoxBase arm the first read_u16's result is
\* dropped, an error included: a stream that ends there ends before the
\* second read too.
BlockSizeField(src, mtype) ==
    IF mtype \in {"DbaseMemo", "DbaseMemo4"}
        THEN DbaseBlockSize(ReadUint(src, 4, 2, FALSE))
    ELSE IF Available(src, 4, 2) THEN ReadUint(src, 6, 2, TRUE)
    ELSE EofError

MakeHeader(next, size) ==
    IF next.tag = "Err" THEN next
    ELSE IF size.tag = "Err" THEN size
    ELSE Ok([next_available_block_index |-> next.v, block_size |-> size.v])

\* MemoHeader::read_from(src, memo_type), from the start of the stream.
MemoHeader_read_from(src, mtype) ==
    MakeHeader(ReadUint(src, 0, 4, FALSE), BlockSizeField(src, mtype))

MakeReader(mtype, header) ==
    IF header.tag = "Err" THEN header
    ELSE Ok([memo_file_type |-> mtype,
             header |-> header.v,
             internal_buffer |-> Repeat(0, header.v.block_size)])

\* MemoReader::new(memo_type, src); the reader's source is the stream src,
\* which the model keeps beside the reader.
MemoReader_new(mtype, src) == MakeReader(mtype, MemoHeader_read_from(src, mtype))

\* iter().position(|x| *x == b): the first index (1-based) of buf that holds
\* byte b; 0 for None.
Position(buf, b) ==
    IF \E i \in 1..Len(buf) : buf[i] = b
        THEN CHOOSE i \in 1..Len(buf) :
                 buf[i] = b /\ \A j \in 1..(i - 1) : buf[j] # b
        ELSE 0

\* iter().rposition(|b| *b != 0): the last index (1-based) of buf that holds
\* a byte other than 0; 0 for None.
RPositionNonZero(buf) ==
    IF \E i \in 1..Len(buf) : buf[i] # 0
        THEN CHOOSE i \in 1..Len(buf) :
                 buf[i] # 0 /\ \A j \in (i + 1)..Len(buf) : buf[j] = 0
        ELSE 0

\* buf with its first bytes replaced by got.
Overwrite(buf, got) == got \o SubSeq(buf, Len(got) + 1, Len(buf))

\* Read::read_exact into the first n bytes of buf from offset off of src.
\* A failed read leaves the bytes it got in buf or leaves buf alone
\* (io.partial): read_exact promises nothing about buf when it fails.  A
\* read of no bytes succeeds without touching the stream.
ReadExactInto(buf, n, src, off, io) ==
    IF n = 0 \/ (io.fault # "read" /\ Available(src, off, n))
        THEN [res |-> Ok(n), buf |-> Overwrite(buf, BytesAt(src, off, n))]
        ELSE [res |-> IF io.fault = "read" THEN OtherIoError ELSE EofError,
              buf |-> IF io.partial THEN Overwrite(buf, Remaining(src, off, n))
                                    ELSE buf]

\* A call that returns r and leaves the scratch buffer as it was.
Untouched(self, r) == [result |-> r, internal_buffer |-> self.internal_buffer]

\* internal_buffer.resize(length, 0) when length > internal_buffer.len()
Grown(buf, length) ==
    IF length > Len(buf) THEN buf \o Repeat(0, length - Len(buf)) ELSE buf

\* The FoxBase arm's result with the trailing zero bytes kept.
TrimTrailingZeros_KeepAll(buf_slice) == buf_slice

\* The FoxBase arm's result: buf_slice up to its last byte that is not 0
\* (rposition Some(pos) => ..pos + 1, None on all zeros => ..0).
TrimTrailingZeros(buf_slice) ==
    SubSeq(buf_slice, 1, RPositionNonZero(buf_slice))

FoxBasePayload(length, rd) ==
    IF rd.res.tag = "Err"
        THEN [result |-> rd.res, internal_buffer |-> rd.buf]
        ELSE [result |-> Ok(TrimTrailingZeros(SubSeq(rd.buf, 1, length))),
              internal_buffer |-> rd.buf]

FoxBaseBlock(self, src, off, io, type, length) ==
    IF type.tag = "Err" THEN Untouched(self, type)
    ELSE IF length.tag = "Err" THEN Untouched(self, length)
    ELSE FoxBasePayload(length.v,
             ReadExactInto(Grown(self.internal_buffer, length.v),
                           length.v, src, off + 8, io))

\* The FoxBaseMemo arm of read_data_at.
ReadFoxBaseMemo(self, src, off, io) ==
    FoxBaseBlock(self, src, off, io,
                 ReadUintIo(src, off, 4, TRUE, io),
                 ReadUintIo(src, off + 4, 4, TRUE, io))

\* position Some(pos) => &internal_buffer[..pos], None => &internal_buffer
CutAt(buf, pos) == IF pos # 0 THEN SubSeq(buf, 1, pos - 1) ELSE buf

Dbase4Payload(length, rd) ==
    IF rd.res.tag = "Err"
        THEN [result |-> rd.res, internal_buffer |-> rd.buf]
        ELSE [result |-> Ok(CutAt(rd.buf, Position(SubSeq(rd.buf, 1, length), 31))),
              internal_buffer |-> rd.buf]

\* &mut self.internal_buffer[..length]: the slice index is checked, so a
\* length past the buffer panics.
Dbase4Block(self, src, off, io, tag, length) ==
    IF tag.tag = "Err" THEN Untouched(self, tag)
    ELSE IF length.tag = "Err" THEN Untouched(self, length)
    ELSE IF length.v > Len(self.internal_buffer) THEN Untouched(self, Panic)
    ELSE Dbase4Payload(length.v,
             ReadExactInto(self.internal_buffer, length.v, src, off + 8, io))

\* The DbaseMemo4 arm of read_data_at.
ReadDbaseMemo4(self, src, off, io) ==
    Dbase4Block(self, src, off, io,
                ReadUintIo(src, off, 4, FALSE, io),
                ReadUintIo(src, off + 4, 4, FALSE, io))

\* The DbaseMemo arm's test on a failed read: the error is returned when
\* index != next_available_block_index - 1 && e.kind() != UnexpectedEof.
\* For next = 0 the u32 subtraction has wrapped to u32::MAX, which no index
\* of the model equals.
Propagates(index, next, res) ==
    (next = 0 \/ index # next - 1) /\ res # EofError

\* The DbaseMemo arm after its read_exact.  next_available_block_index - 1 is
\* computed only after a failed read; on 0 it overflows u32: a panic in a
\* build with overflow checks (io.checked), else it wraps.
ClassicBlock(self, index, io, rd) ==
    IF rd.res.tag = "Err" /\ self.header.next_available_block_index = 0 /\ io.checked
        THEN [result |-> Panic, internal_buffer |-> rd.buf]
    ELSE IF /\ rd.res.tag = "Err"
            /\ Propagates(index, self.header.next_available_block_index, rd.res)
        THEN [result |-> rd.res, internal_buffer |-> rd.buf]
    ELSE [result |-> Ok(CutAt(rd.buf, Position(rd.buf, 26))),
          internal_buffer |-> rd.buf]

\* The DbaseMemo arm of read_data_at.
ReadDbaseMemo(self, src, off, index, io) ==
    ClassicBlock(self, index, io,
                 ReadExactInto(self.internal_buffer, Len(self.internal_buffer),
                               src, off, io))

\* A u32 index is two 16-bit halves; a0 * b for the low half a0 and a u16 b,
\* as the low 16 bits of the product and what it carries into the high half.
MulLowSum(mid, low) ==
    [lo |-> ((mid % 256) * 256 + low) % 65536,
     carry |-> (mid \div 256) + (((mid % 256) * 256 + low) \div 65536)]

MulLow(a0, b) == MulLowSum((a0 \div 256) * b, (a0 % 256) * b)

\* The product as u32 arithmetic leaves it, from its high half (counted in
\* units of 2^16) and its low half: 32 bits kept, and whether bits were lost.  The kept value is below 2^31 for every index of the model.
WrappedProduct(high, low) ==
    [overflow |-> high >= 65536,
     value |-> (high % 65536) * 65536 + low.lo]

MulU32(index, b, low) ==
    WrappedProduct((index \div 65536) * b + low.carry, low)

\* let byte_offset = index * u32::from(self.header.block_size), for an index
\* below 2^31.
byte_offset(index, block_size) ==
    MulU32(index, block_size, MulLow(index % 65536, block_size))

\* What read_data_at does once the stream is at offset.
ReadBlock(self, src, offset, index, io) ==
    IF io.fault = "seek" THEN Untouched(self, OtherIoError)
    ELSE IF self.memo_file_type = "FoxBaseMemo"
        THEN ReadFoxBaseMemo(self, src, offset, io)
    ELSE IF self.memo_file_type = "DbaseMemo4"
        THEN ReadDbaseMemo4(self, src, offset, io)
    ELSE ReadDbaseMemo(self, src, offset, index, io)

WithSought(rd, sought) ==
    [result |-> rd.result, internal_buffer |-> rd.internal_buffer,
     sought |-> sought]

\* The multiplication overflows u32: a panic where the build checks
\* arithmetic (io.checked), the wrapped offset elsewhere.
SeekAndRead(self, src, index, io, off) ==
    IF off.overflow /\ io.checked
        THEN WithSought(Untouched(self, Panic), None)
        ELSE WithSought(ReadBlock(self, src, off.value, index, io),
                        IF io.fault = "seek" THEN None ELSE Some(off.value))

\* MemoReader::read_data_at(&mut self, index) on the stream src: the result
\* and the scratch buffer it leaves.  io.fault = "seek": the seek fails.
\* The call also reports where the seek left the stream (sought), None when
\* the call never got to a successful seek.
read_data_at(self, src, index, io) ==
    SeekAndRead(self, src, index, io,
                byte_offset(index, self.header.block_size))

(***************************************************************************)
(* Date                                                                    *)
(***************************************************************************)
MinYear == 1900

MaxYear == 2155

MaxMonth == 12

MaxDay == 31

\* struct Date { year, month, day }
Date(y, m, d) == [year |-> y, month |-> m, day |-> d]

\* Date::new(day, month, year)
Date_new(d, m, y) ==
    IF m > MaxMonth \/ d > MaxDay \/ y < MinYear \/ y > MaxYear
        THEN Err("InvalidDate")
        ELSE Ok(Date(y, m, d))

\* Date::to_julian_day_number with the month term's rounding offset lost.
to_julian_day_number_NoRound(self) ==
    LET my == IF self.month > 2
                  THEN <<self.month - 3, self.year>>
                  ELSE <<self.month + 9, self.year - 1>>
        mon == my[1]
        yr == my[2]
        century == yr \div 100
        decade == yr - 100 * century
    IN  ((146097 * century) \div 4 + (1461 * decade) \div 4
                      + (153 * mon) \div 5 + self.day + 1721119)

\* Date::to_julian_day_number(&self) -> i32, in u32 arithmetic
to_julian_day_number(self) ==
    LET my == IF self.month > 2
                  THEN <<self.month - 3, self.year>>
                  ELSE <<self.month + 9, self.year - 1>>
        mon == my[1]
        yr == my[2]
        century == yr \div 100
        decade == yr - 100 * century
    IN  ((146097 * century) \div 4 + (1461 * decade) \div 4
                      + (153 * mon + 2) \div 5 + self.day + 1721119)

\* Date::julian_day_number_to_gregorian_date(jdn: i32) -> Date, in i32 arithmetic
julian_day_number_to_gregorian_date(j) ==
    LET Y == 4716
        J == 1401
        M == 2
        N == 12
        R == 4
        P == 1461
        V == 3
        U == 5
        S == 153
        W == 2
        B == 274277
        C == -38
        f == j + J + TruncDiv(TruncDiv(4 * j + B, 146097) * 3, 4) + C
        e == R * f + V
        g == TruncDiv(TruncRem(e, P), R)
        h == U * g + W
        dd == TruncDiv(TruncRem(h, S), U) + 1
        mm == TruncRem(TruncDiv(h, S) + M, N) + 1
        yy == TruncDiv(e, P) - Y + TruncDiv(N + M - mm, N)
    IN  Date(yy, mm, dd)

(***************************************************************************)
(* Time                                                                    *)
(***************************************************************************)
HOURS_FACTOR == 3600000

MINUTES_FACTOR == 60000

SECONDS_FACTOR == 1000

\* struct Time { hours, minutes, seconds }
Time(h, m, s) == [hours |-> h, minutes |-> m, seconds |-> s]

\* Time::from_word with the minutes left in the word the seconds are taken
\* from.
FromWordSeconds_KeepMinutes(hours, minutes, w) ==
    Time(hours, minutes, TruncDiv(w, SECONDS_FACTOR))

\* Time::from_word, from `time_word -= minutes * MINUTES_FACTOR` on.  The
\* model's words are 0 or more and below 2^27, so the casts between i32 and
\* u32 change nothing.
FromWordSeconds(hours, minutes, w) ==
    Time(hours, minutes, TruncDiv(w - minutes * MINUTES_FACTOR, SECONDS_FACTOR))

\* Time::from_word, from `let minutes` on.
FromWordMinutes(hours, w) ==
    FromWordSeconds(hours, TruncDiv(w, MINUTES_FACTOR), w)

\* Time::from_word, from `time_word -= hours * HOURS_FACTOR` on.
FromWordHours(w, hours) == FromWordMinutes(hours, w - hours * HOURS_FACTOR)

\* Time::from_word(time_word: i32) -> Time
Time_from_word(w) == FromWordHours(w, TruncDiv(w, HOURS_FACTOR))

\* Time::to_time_word(&self) -> i32
to_time_word(self) ==
    self.hours * HOURS_FACTOR + self.minutes * MINUTES_FACTOR
        + self.seconds * SECONDS_FACTOR

(***************************************************************************)
(* Date as text                                                            *)
(***************************************************************************)
\* Whether byte offset k of the string s is a char boundary.
IsCharBoundary(s, k) ==
    \/ k = 0
    \/ k = Len(s)
    \/ (k < Len(s) /\ ~IsCont(s[k + 1]))

\* &s[a..b]: the bytes a..b-1, or a panic when an end is past the string or
\* inside a char.
StrSlice(s, a, b) ==
    IF a <= b /\ IsCharBoundary(s, a) /\ IsCharBoundary(s, b)
        THEN Ok(SubSeq(s, a + 1, b))
        ELSE Panic

ParseSlice(sl) == IF sl.tag = "Panic" THEN Panic ELSE parse_u32(sl.v)

\* One group of <Date as FromStr>::from_str: s[a..b].parse::<u32>()
DateGroup(s, a, b) == ParseSlice(StrSlice(s, a, b))

\* <Date as FromStr>::from_str, one `?` after the other.
FromDay(year, month, day) ==
    IF day.tag # "Ok" THEN day ELSE Ok(Date(year, month, day.v))

FromMonth(s, year, month) ==
    IF month.tag # "Ok" THEN month
    ELSE FromDay(year, month.v, DateGroup(s, 6, 8))

FromYear(s, year) ==
    IF year.tag # "Ok" THEN year
    ELSE FromMonth(s, year.v, DateGroup(s, 4, 6))

Date_from_str(s) == FromYear(s, DateGroup(s, 0, 4))

\* <Date as WriteableDbaseField>::write_to with the month not zero-padded.
Date_write_to_NoPad(self) ==
    FormatPadded(self.year, 4) \o FormatPadded(self.month, 1)
        \o FormatPadded(self.day, 2)

\* <Date as WriteableDbaseField>::write_to: "{:04}{:02}{:02}"
Date_write_to(self) ==
    FormatPadded(self.year, 4) \o FormatPadded(self.month, 2)
        \o FormatPadded(self.day, 2)

(***************************************************************************)
(* FieldValue                                                              *)
(***************************************************************************)
\* enum FieldValue: the variant and what it carries.
FieldValue(variant, payload) == [variant |-> variant, payload |-> payload]

\* FieldValue::field_type
field_type(self) == self.variant

\* <bool as WriteableDbaseField>::write_to
bool_write_to(b) == IF b THEN <<116>> ELSE <<102>>

\* <Option<bool> as WriteableDbaseField>::write_to
Option_bool_write_to(v) ==
    IF v.tag = "Some" THEN bool_write_to(v.v) ELSE <<63>>

\* <&str as WriteableDbaseField>::write_to with the text cut at 3 bytes.
str_write_to_Cut(s) == SubSeq(s, 1, IF Len(s) < 3 THEN Len(s) ELSE 3)

\* <&str as WriteableDbaseField>::write_to: self.as_bytes()
str_write_to(s) == s

\* <FieldValue as WriteableDbaseField>::write_to: the bytes written, or the
\* panic of unimplemented!() for Memo.  Numeric and Float values are kept as
\* the text they were read from, and their Display is not modelled: the
\* model writes only their no-value.
FieldValue_write_to(self) ==
    CASE self.variant = "Character" ->
             Ok(IF self.payload.tag = "Some" THEN str_write_to(self.payload.v) ELSE <<>>)
      [] self.variant \in {"Numeric", "Float"} /\ self.payload.tag = "None" ->
             Ok(<<>>)
      [] self.variant = "Logical" -> Ok(Option_bool_write_to(self.payload))
      [] self.variant = "Date" ->
             Ok(IF self.payload.tag = "Some"
                    THEN Date_write_to(self.payload.v)
                    ELSE Repeat(32, 8))
      [] self.variant = "Memo" -> Panic

\* read_string_of_len(source, len) at cursor position pos
read_string_of_len(src, pos, len) ==
    IF Available(src, pos, len)
        THEN Ok(from_utf8_lossy(BytesAt(src, pos, len)))
        ELSE EofError

\* What FieldValue::read_from hands back for a record column: the result and
\* the bytes the cursor advanced.
Decoded(r, n) == [result |-> r, advance |-> n]

\* The Logical arm with '0' read as false.
LogicalOf_ZeroFalse(b) ==
    IF b \in {32, 63} THEN FieldValue("Logical", None)
    ELSE IF b \in {49, 84, 116, 89, 121} THEN FieldValue("Logical", Some(TRUE))
    ELSE IF b \in {48, 78, 110, 70, 102} THEN FieldValue("Logical", Some(FALSE))
    ELSE FieldValue("Logical", None)

\* The Logical arm of FieldValue::read_from, on the byte read.
LogicalOf(b) ==
    IF b \in {32, 63} THEN FieldValue("Logical", None)
    ELSE IF b \in {49, 48, 84, 116, 89, 121} THEN FieldValue("Logical", Some(TRUE))
    ELSE IF b \in {78, 110, 70, 102} THEN FieldValue("Logical", Some(FALSE))
    ELSE FieldValue("Logical", None)

ReadLogical(src, pos) ==
    IF Available(src, pos, 1)
        THEN Decoded(Ok(LogicalOf(src[pos + 1])), 1)
        ELSE Decoded(EofError, 0)

\* The Character arm, on value.trim().
CharacterOfTrimmed(trimmed_value) ==
    IF trimmed_value = <<>>
        THEN Ok(FieldValue("Character", None))
        ELSE Ok(FieldValue("Character", Some(trimmed_value)))

CharacterOf(text) == CharacterOfTrimmed(trim(text))

NumberParsed(variant, parsed) ==
    IF parsed.tag = "Err" THEN parsed
    ELSE Ok(FieldValue(variant, Some(parsed.v)))

\* The Numeric / Float test for no-value without the all-'*' test.
IsNoNumber_NoStars(text, trimmed_value) == trimmed_value = <<>>

\* trimmed_value.is_empty() || value.chars().all(|c| c == '*')
IsNoNumber(text, trimmed_value) ==
    trimmed_value = <<>> \/ chars_all(text, 42)

NumberOfTrimmed(variant, text, trimmed_value) ==
    IF IsNoNumber(text, trimmed_value)
        THEN Ok(FieldValue(variant, None))
        ELSE NumberParsed(variant, parse_float(trimmed_value))

\* The Numeric (parse::<f64>) and Float (parse::<f32>) arms.
NumberOf(variant, text) == NumberOfTrimmed(variant, text, trim(text))

DateParsed(parsed) ==
    IF parsed.tag # "Ok" THEN parsed
    ELSE Ok(FieldValue("Date", Some(parsed.v)))

\* The Date arm.
DateOf(text) ==
    IF chars_all(text, 32) THEN Ok(FieldValue("Date", None))
    ELSE DateParsed(Date_from_str(text))

\* The text arms share this shape: read field_length bytes as text, then
\* decide on the text.
DecideText(info, text) ==
    CASE info.field_type = "Character" -> CharacterOf(text)
      [] info.field_type = "Numeric" -> NumberOf("Numeric", text)
      [] info.field_type = "Float" -> NumberOf("Float", text)
      [] info.field_type = "Date" -> DateOf(text)

ReadText(info, str) ==
    IF str.tag = "Err" THEN Decoded(str, 0)
    ELSE Decoded(DecideText(info, str.v), info.field_length)

\* "Blank" stands for the early return of an empty Memo.
Blank == [tag |-> "Blank"]

TextIndexTrimmed(trimmed_str) ==
    IF trimmed_str = <<>> THEN Blank ELSE parse_u32(trimmed_str)

TextIndex(len, str) ==
    IF str.tag = "Err" THEN Decoded(str, 0)
    ELSE Decoded(TextIndexTrimmed(trim(str.v)), len)

RawIndex(raw) == Decoded(raw, IF raw.tag = "Ok" THEN 4 ELSE 0)

\* The Memo arm's block index: text when field_length > 4, else a raw
\* little-endian u32 (4 bytes, whatever field_length says).
MemoIndex(src, pos, len) ==
    IF len > 4
        THEN TextIndex(len, read_string_of_len(src, pos, len))
        ELSE RawIndex(ReadUint(src, pos, 4, FALSE))

\* What the Memo arm makes of read_data_at's answer.
MemoLooked(reader, rd) ==
    [result |-> IF rd.result.tag = "Ok"
                    THEN Ok(FieldValue("Memo", from_utf8_lossy(rd.result.v)))
                    ELSE rd.result,
     memo_reader |-> Some([reader.v EXCEPT !.internal_buffer = rd.internal_buffer])]

\* The Memo arm's lookup with an empty Memo in place of the error for a
\* missing reader.
MemoOf_NoError(index, reader, memo_src, io) ==
    IF reader.tag = "Some"
        THEN MemoLooked(reader, read_data_at(reader.v, memo_src, index, io))
        ELSE [result |-> Ok(FieldValue("Memo", <<>>)), memo_reader |-> reader]

\* The Memo arm once the index is known: the lookup in the memo stream.
MemoOf(index, reader, memo_src, io) ==
    IF reader.tag = "Some"
        THEN MemoLooked(reader, read_data_at(reader.v, memo_src, index, io))
        ELSE [result |-> Err("MissingMemoFile"), memo_reader |-> reader]

\* A column decoded without the memo reader.
Keep(r, reader) ==
    [result |-> r.result, advance |-> r.advance, memo_reader |-> reader]

MemoJoin(idx, looked) ==
    [result |-> looked.result, advance |-> idx.advance,
     memo_reader |-> looked.memo_reader]

ReadMemo(idx, reader, memo_src, io) ==
    IF idx.result.tag = "Blank"
        THEN Keep(Decoded(Ok(FieldValue("Memo", <<>>)), idx.advance), reader)
    ELSE IF idx.result.tag = "Err" THEN Keep(idx, reader)
    ELSE MemoJoin(idx, MemoOf(idx.result.v, reader, memo_src, io))

\* FieldValue::read_from(source, memo_reader, field_info) with the cursor of
\* source at pos: the result, the bytes the cursor advanced on success, and
\* the memo reader after the call.  The binary Visual FoxPro columns
\* (Integer, Double, Currency, DateTime) are outside the model's columns.
FieldValue_read_from(src, pos, reader, memo_src, info, io) ==
    CASE info.field_type = "Logical" -> Keep(ReadLogical(src, pos), reader)
      [] info.field_type \in {"Character", "Numeric", "Float", "Date"} ->
             Keep(ReadText(info, read_string_of_len(src, pos, info.field_length)),
                  reader)
      [] info.field_type = "Memo" ->
             ReadMemo(MemoIndex(src, pos, info.field_length), reader, memo_src, io)

(***************************************************************************)
(* Idle machines: each specification runs one machine and leaves the       *)
(* others in these states.                                                 *)
(***************************************************************************)
NoValue == [variant |-> "NoValue"]

NoFieldInfo == [field_type |-> "NoField", field_length |-> 0]

NoCall == [index |-> 0, fault |-> "none", sought |-> None, faults |-> 0]

IdleDate ==
    /\ args = [day |-> 1, month |-> 1, year |-> MinYear]
    /\ new_result = NoResult
    /\ jdn = NoResult
    /\ gregorian = NoResult

IdleField ==
    /\ value = NoValue
    /\ dst = <<>>
    /\ field_info = NoFieldInfo
    /\ source = <<>>
    /\ position = 0
    /\ read_result = NoResult

IdleMemo ==
    /\ memo_type = "DbaseMemo"
    /\ memo_file = <<>>
    /\ memo_reader = None
    /\ memo_result = NoResult
    /\ last_call = NoCall
    /\ calls = 0

IdleTime ==
    /\ time_arg = NoResult
    /\ time = NoResult
    /\ time_word = NoResult

SeqsUpTo(S, n) == UNION {[1..k -> S] : k \in 0..n}

\* The I/O outcomes the environment chooses for one call: which operation
\* of the stream fails, whether a failed read left bytes in the buffer, and
\* whether the build checks integer overflow.
IoOutcomes(faults) == [fault : faults, partial : BOOLEAN, checked : BOOLEAN]

QuietIo == [fault |-> "none", partial |-> FALSE, checked |-> FALSE]

(***************************************************************************)
(* The Date machine: a caller holding a (day, month, year) triple calls    *)
(* Date::new on it, or builds the Date literally (as the crate's own tests *)
(* and from_str do, bypassing Date::new) and converts it to a Julian day   *)
(* number and back.                                                        *)
(***************************************************************************)
\* How far past the validated ranges the inputs go.
Slack == 1

Clip(x) == IF x < 0 THEN 0 ELSE x

ArgDays == Clip(1 - Slack) .. (MaxDay + Slack)

ArgMonths == Clip(1 - Slack) .. (MaxMonth + Slack)

ArgYears == (MinYear - Slack) .. (MaxYear + Slack)

InitDate ==
    /\ pc = "init"
    /\ args \in [day : ArgDays, month : ArgMonths, year : ArgYears]
    /\ new_result = NoResult
    /\ jdn = NoResult
    /\ gregorian = NoResult
    /\ IdleField
    /\ IdleMemo
    /\ IdleTime

CallDateNew ==
    /\ pc = "init"
    /\ pc' = "new"
    /\ new_result' = Date_new(args.day, args.month, args.year)
    /\ UNCHANGED <<args, jdn, gregorian, fieldVars, memoVars, timeVars>>

CallToJulian ==
    /\ pc = "init"
    /\ pc' = "to_julian"
    /\ jdn' = Ok(to_julian_day_number(Date(args.year, args.month, args.day)))
    /\ UNCHANGED <<args, new_result, gregorian, fieldVars, memoVars, timeVars>>

CallFromJulian ==
    /\ pc = "to_julian"
    /\ pc' = "from_julian"
    /\ gregorian' = Ok(julian_day_number_to_gregorian_date(jdn.v))
    /\ UNCHANGED <<args, new_result, jdn, fieldVars, memoVars, timeVars>>

NextDate == CallDateNew \/ CallToJulian \/ CallFromJulian

SpecDate == InitDate /\ [][NextDate]_vars

(***************************************************************************)
(* The field machine: a caller either holds a FieldValue, writes it, and   *)
(* reads it back through a column as long as what was written (the         *)
(* crate's write_read_* tests), or holds a record's bytes and a column     *)
(* and reads the column's value.  No memo reader is supplied.              *)
(***************************************************************************)
\* The longest text column and record of the decode scenarios.
MaxTextLen == 3

\* The longest Memo column of the decode scenarios (a text index takes a
\* column of more than 4 bytes).
MaxMemoLen == 6

\* The most chars of a written Character value.
MaxChars == 3

\* ' ', '*', '-', '.', '1', 'x', and the two bytes of U+00A0 (a white space).
TextBytes == {32, 42, 45, 46, 49, 120, 194, 160}

\* ' ', '1', 'x'
MemoIndexBytes == {32, 49, 120}

\* ' ', '*', 'A', U+00E9, U+3000 (a white space), U+1F914
CharAlphabet == {32, 42, 65, 233, 12288, 129300}

AllBytes == 0..255

\* ' ', '+', '-', '7', 'x', and the first byte of a two-byte char.
DateBytes == {32, 43, 45, 55, 120, 194}

\* "201901015": the digits of a date and one byte more.
DateDigits == <<50, 48, 49, 57, 48, 49, 48, 49, 53>>

\* The Date columns of the decode scenarios: one byte short of, exactly,
\* and one byte more than YYYYMMDD.
DateLengths == 7..9

\* DateDigits, and DateDigits with one byte replaced.
DateTexts ==
    {DateDigits}
    \cup {[DateDigits EXCEPT ![k] = b] : k \in 1..8, b \in DateBytes}
    \cup {<<32, 32, 32, 32, 32, 32, 32, 32, 32>>}

\* The columns and record bytes read_from is given.  Among them a Logical
\* column declared wider than its one byte, or with no width, over 'T', 'n',
\* '?', ' ' and 'x'.
DecodeScenarios ==
    [field_type : {"Logical"}, field_length : {1},
     source : {<<b>> : b \in AllBytes} \cup {<<>>}]
    \cup
    [field_type : {"Logical"}, field_length : {0, 2},
     source : {<<b, c>> : b, c \in {84, 110, 63, 32, 120}}]
    \cup
    [field_type : {"Character", "Numeric", "Float", "Date"},
     field_length : 0..MaxTextLen,
     source : SeqsUpTo(TextBytes, MaxTextLen)]
    \cup
    [field_type : {"Memo"}, field_length : 0..MaxMemoLen,
     source : SeqsUpTo(MemoIndexBytes, MaxMemoLen)]
    \cup
    [field_type : {"Date"}, field_length : DateLengths, source : DateTexts]

WriteValues ==
    {FieldValue("Character", Some(StringOf(cps))) : cps \in SeqsUpTo(CharAlphabet, MaxChars)}
    \cup {FieldValue("Character", None), FieldValue("Numeric", None),
          FieldValue("Float", None), FieldValue("Date", None),
          FieldValue("Date", Some(Date(2019, 1, 1))), FieldValue("Memo", <<>>)}
    \cup {FieldValue("Logical", v) : v \in {Some(TRUE), Some(FALSE), None}}

InitField ==
    /\ IdleDate
    /\ IdleMemo
    /\ IdleTime
    /\ dst = <<>>
    /\ position = 0
    /\ read_result = NoResult
    /\ \/ /\ pc = "have_value"
          /\ value \in WriteValues
          /\ field_info = NoFieldInfo
          /\ source = <<>>
       \/ /\ pc = "have_record"
          /\ value = NoValue
          /\ \E sc \in DecodeScenarios :
                 /\ field_info = [field_type |-> sc.field_type,
                                  field_length |-> sc.field_length]
                 /\ source = sc.source

Wrote(w) ==
    IF w.tag = "Ok"
        THEN dst' = dst \o w.v /\ pc' = "written"
        ELSE dst' = dst /\ pc' = "panicked"

\* value.write_to(&mut out)
CallWriteTo ==
    /\ pc = "have_value"
    /\ Wrote(FieldValue_write_to(value))
    /\ UNCHANGED <<value, field_info, source, position, read_result,
                   dateVars, memoVars, timeVars>>

\* create_temp_record_field_info(value.field_type(), out.position() as u8);
\* out.set_position(0)
SetUpRead ==
    /\ pc = "written"
    /\ pc' = "have_record"
    /\ field_info' = [field_type |-> field_type(value),
                      field_length |-> Len(dst) % 256]
    /\ source' = dst
    /\ position' = 0
    /\ UNCHANGED <<value, dst, read_result, dateVars, memoVars, timeVars>>

\* A read that hits the end of the record leaves the cursor where it was or
\* at the end of the record: read_exact promises neither.
ReadFromDone(r) ==
    /\ read_result' = r.result
    /\ memo_reader' = r.memo_reader
    /\ \E at_end \in (IF r.result = EofError /\ r.advance = 0
                          THEN BOOLEAN ELSE {FALSE}) :
           position' = IF at_end THEN Len(source) ELSE position + r.advance
    /\ pc' = IF r.result.tag = "Panic" THEN "panicked" ELSE "read"

\* FieldValue::read_from(&mut source, &mut memo_reader, &field_info)
CallReadFrom ==
    /\ pc = "have_record"
    /\ \E io \in (IF memo_reader.tag = "Some"
                      THEN IoOutcomes({"none", "seek", "read"})
                      ELSE {QuietIo}) :
           ReadFromDone(FieldValue_read_from(source, position, memo_reader,
                                             memo_file, field_info, io))
    /\ UNCHANGED <<value, dst, field_info, source, dateVars,
                   memo_type, memo_file, memo_result, last_call, calls, timeVars>>

NextField == CallWriteTo \/ SetUpRead \/ CallReadFrom

SpecField == InitField /\ [][NextField]_vars

\* The Date values of the validated range, each written and read back.
InitDateText ==
    /\ IdleDate
    /\ IdleMemo
    /\ IdleTime
    /\ dst = <<>>
    /\ position = 0
    /\ read_result = NoResult
    /\ pc = "have_value"
    /\ field_info = NoFieldInfo
    /\ source = <<>>
    /\ value \in {FieldValue("Date", Some(Date(a.year, a.month, a.day))) :
                      a \in [day : 1..MaxDay, month : 1..MaxMonth,
                             year : MinYear..MaxYear]}
                 \cup {FieldValue("Date", None)}

SpecDateText == InitDateText /\ [][NextField]_vars

(***************************************************************************)
(* The memo machine: a memo stream is opened with MemoReader::new and      *)
(* blocks are read from it with read_data_at, the stream failing as the    *)
(* environment chooses.  The stream is a header and one data block.        *)
(***************************************************************************)
\* The most payload bytes of the data block.
MaxPayload == 3

\* The most read_data_at calls on one reader.
MaxCalls == 2

\* The header's 8 bytes.
HeaderLen == 8

\* The block sizes the header stores; 0 stands for 512 in the dBase layouts.
StoredBlockSizes == {0, 2, 4}

\* 0, 'A' and the terminators 0x1A and 0x1F.
ClassicBytes == {0, 65, 26}

PrefixedBytes == {0, 65, 31}

\* The index of the block that starts right after the header.
DataIndex(block_size) == IF block_size = 0 THEN 0 ELSE HeaderLen \div block_size

\* The index of a block far past the end of the stream.
FarIndex(block_size) == DataIndex(block_size) + HeaderLen

\* The header as MemoHeader::read_from reads it back.
HeaderBytes(mtype, next, stored) ==
    <<next, 0, 0, 0>>
        \o (IF mtype = "FoxBaseMemo" THEN <<0, 0, 0, stored>>
                                     ELSE <<stored, 0, 0, 0>>)

\* A block of the two layouts that prefix the payload with a type word and
\* a length word.
PrefixedBlock(mtype, length, payload) ==
    <<0, 0, 0, 1>>
        \o (IF mtype = "FoxBaseMemo" THEN <<0, 0, 0, length>>
                                     ELSE <<length, 0, 0, 0>>)
        \o payload

\* What the header says of the block size once it is read back.
StoredAs(mtype, stored) ==
    IF stored = 0 /\ mtype # "FoxBaseMemo" THEN DefaultBlockSize ELSE stored

MemoFiles ==
    {[memo_type |-> q.memo_type,
      bytes |-> HeaderBytes(q.memo_type, 2, q.stored)
                    \o PrefixedBlock(q.memo_type, q.length, q.payload)] :
         q \in [memo_type : {"FoxBaseMemo", "DbaseMemo4"},
                stored : StoredBlockSizes,
                length : 0..(MaxPayload + 1),
                payload : SeqsUpTo(PrefixedBytes, MaxPayload)]}
    \cup
    {[memo_type |-> "DbaseMemo",
      bytes |-> HeaderBytes("DbaseMemo",
                            IF q.next = 0 THEN 0
                            ELSE DataIndex(StoredAs("DbaseMemo", q.stored)) + q.next,
                            q.stored) \o q.payload] :
         q \in [stored : StoredBlockSizes, next : 0..2,
                payload : SeqsUpTo(ClassicBytes, MaxPayload)]}
    \cup
    {[memo_type |-> t, bytes |-> SubSeq(HeaderBytes(t, 2, 2), 1, k)] :
         t \in {"FoxBaseMemo", "DbaseMemo4", "DbaseMemo"}, k \in {0, 3, 5, 7}}

InitMemo ==
    /\ IdleDate
    /\ IdleField
    /\ IdleTime
    /\ pc = "closed"
    /\ memo_reader = None
    /\ memo_result = NoResult
    /\ last_call = NoCall
    /\ calls = 0
    /\ \E f \in MemoFiles :
           /\ memo_type = f.memo_type
           /\ memo_file = f.bytes

Opened(r) ==
    /\ memo_result' = (IF r.tag = "Ok" THEN Ok(<<>>) ELSE r)
    /\ memo_reader' = (IF r.tag = "Ok" THEN Some(r.v) ELSE None)
    /\ pc' = (IF r.tag = "Ok" THEN "open" ELSE "new_failed")

\* MemoReader::new(memo_type, src)
CallMemoNew ==
    /\ pc = "closed"
    /\ Opened(MemoReader_new(memo_type, memo_file))
    /\ UNCHANGED <<memo_type, memo_file, last_call, calls, dateVars, fieldVars, timeVars>>

\* The header block, the data block, and a block past the end.  In the
\* classic layout the block after the data block instead, which may be the
\* last allocated one.  And, for a block size of 4 or more, an index
\* whose product with it is 2^32 more than the data block's offset (smaller
\* block sizes have none under 2^31).
Indexes(self) ==
    {0, DataIndex(self.header.block_size),
     IF self.memo_file_type = "DbaseMemo"
         THEN DataIndex(self.header.block_size) + 1
         ELSE FarIndex(self.header.block_size)}
        \cup (IF self.header.block_size >= 4
                  THEN {(1073741824 \div self.header.block_size) * 4
                            + DataIndex(self.header.block_size)}
                  ELSE {})

DataRead(index, io, rd) ==
    /\ memo_result' = rd.result
    /\ memo_reader' = Some([memo_reader.v EXCEPT
                                !.internal_buffer = rd.internal_buffer])
    /\ last_call' = [index |-> index, fault |-> io.fault, sought |-> rd.sought,
                     faults |-> last_call.faults
                                    + (IF io.fault = "none" THEN 0 ELSE 1)]
    /\ calls' = calls + 1
    /\ pc' = (IF rd.result.tag = "Panic" THEN "panicked" ELSE "open")

\* memo_reader.read_data_at(index)
CallReadDataAt ==
    /\ pc = "open"
    /\ calls < MaxCalls
    /\ \E index \in Indexes(memo_reader.v),
          io \in IoOutcomes({"none", "seek", "read"}) :
           DataRead(index, io, read_data_at(memo_reader.v, memo_file, index, io))
    /\ UNCHANGED <<memo_type, memo_file, dateVars, fieldVars, timeVars>>

NextMemo == CallMemoNew \/ CallReadDataAt

SpecMemo == InitMemo /\ [][NextMemo]_vars

(***************************************************************************)
(* The Time machine: a caller holding a time word calls Time::from_word on *)
(* it and to_time_word on the Time it got, or holds a Time (built          *)
(* literally: Time has no validating constructor) and calls to_time_word   *)
(* on it and Time::from_word on the word it got.                           *)
(***************************************************************************)
\* The milliseconds within the second that the caller's words have.
SubSeconds == {0, 1, 999}

Hours == 0..(23 + Slack)

Minutes == 0..(59 + Slack)

Seconds == 0..(59 + Slack)

InitTime ==
    /\ IdleDate
    /\ IdleField
    /\ IdleMemo
    /\ time = NoResult
    /\ time_word = NoResult
    /\ \/ /\ pc = "have_word"
          /\ \E h \in Hours, m \in Minutes, s \in Seconds, ms \in SubSeconds :
                 time_arg = [word |-> to_time_word(Time(h, m, s)) + ms]
       \/ /\ pc = "have_time"
          /\ \E h \in Hours, m \in Minutes, s \in Seconds :
                 time_arg = [time |-> Time(h, m, s)]

\* Time::from_word, on the caller's word or on the word to_time_word gave.
CallFromWord ==
    /\ pc \in {"have_word", "to_word"}
    /\ pc' = (IF pc = "have_word" THEN "from_word" ELSE "time_back")
    /\ time' = Ok(Time_from_word(IF pc = "have_word" THEN time_arg.word
                                                     ELSE time_word.v))
    /\ UNCHANGED <<time_arg, time_word, dateVars, fieldVars, memoVars>>

\* to_time_word, on the caller's Time or on the Time from_word gave.
CallToTimeWord ==
    /\ pc \in {"have_time", "from_word"}
    /\ pc' = (IF pc = "have_time" THEN "to_word" ELSE "word_back")
    /\ time_word' = Ok(to_time_word(IF pc = "have_time" THEN time_arg.time
                                                         ELSE time.v))
    /\ UNCHANGED <<time_arg, time, dateVars, fieldVars, memoVars>>

NextTime == CallFromWord \/ CallToTimeWord

SpecTime == InitTime /\ [][NextTime]_vars

(***************************************************************************)
(* C1                                                                      *)
(***************************************************************************)
InValidatedRange(a) ==
    /\ a.year \in MinYear..MaxYear
    /\ a.month \in 1..MaxMonth
    /\ a.day \in 1..MaxDay

IsLeapYear(y) == ((y % 4) = 0 /\ (y % 100) # 0) \/ (y % 400) = 0

DaysInMonth(y, m) ==
    IF m = 2 THEN (IF IsLeapYear(y) THEN 29 ELSE 28)
    ELSE IF m \in {4, 6, 9, 11} THEN 30 ELSE 31

IsCalendarDate(a) ==
    /\ a.year \in MinYear..MaxYear
    /\ a.month \in 1..MaxMonth
    /\ a.day \in 1..DaysInMonth(a.year, a.month)

\* C1 as stated: every Date with year 1900..2155, month 1..12 and day 1..31
\* comes back unchanged from the Julian day number round trip.
C1_Original ==
    (pc = "from_julian" /\ InValidatedRange(args))
        => gregorian.v = Date(args.year, args.month, args.day)

\* C1, amended: every Date of the validated range that is a day of the
\* Gregorian calendar (day <= the length of its month) comes back unchanged
\* from the Julian day number round trip, and 2019-07-20 <-> 2458685.
C1_JulianRoundTrip ==
    /\ (pc = "from_julian" /\ IsCalendarDate(args))
           => gregorian.v = Date(args.year, args.month, args.day)
    /\ (pc \in {"to_julian", "from_julian"}
            /\ args = [day |-> 20, month |-> 7, year |-> 2019])
           => jdn.v = 2458685
    /\ (pc = "from_julian" /\ jdn.v = 2458685)
           => gregorian.v = Date(2019, 7, 20)

C1_Witness ==
    /\ pc = "from_julian"
    /\ args = [day |-> 20, month |-> 7, year |-> 2019]
    /\ jdn.v = 2458685
    /\ gregorian.v = Date(2019, 7, 20)

(***************************************************************************)
(* C2                                                                      *)
(***************************************************************************)
Digits2(n) == <<48 + ((n \div 10) % 10), 48 + (n % 10)>>

Digits4(n) == Digits2(n \div 100) \o Digits2(n % 100)

\* YYYYMMDD, or 8 spaces for no-value.
DateText(v) ==
    IF v.tag = "Some"
        THEN Digits4(v.v.year) \o Digits2(v.v.month) \o Digits2(v.v.day)
        ELSE <<32, 32, 32, 32, 32, 32, 32, 32>>

IsValidDateValue(v) ==
    /\ v.variant = "Date"
    /\ (v.payload.tag = "Some" => InValidatedRange(v.payload.v))

\* C2: for every FieldValue::Date v (Some(d) with d of the validated range,
\* or None) write_to writes exactly the 8 bytes YYYYMMDD, zero-padded (8
\* spaces for None), without failing, and read_from on those bytes through a
\* Date column of that length returns v.
C2_DateTextRoundTrip ==
    IsValidDateValue(value) =>
        /\ pc # "panicked"
        /\ pc \in {"written", "have_record", "read"} =>
               (Len(dst) = 8 /\ dst = DateText(value.payload))
        /\ pc \in {"have_record", "read"} =>
               field_info = [field_type |-> "Date", field_length |-> 8]
        /\ pc = "read" => read_result = Ok(value)

C2_Witness ==
    /\ pc = "read"
    /\ value = FieldValue("Date", Some(Date(2019, 1, 1)))
    /\ dst = <<50, 48, 49, 57, 48, 49, 48, 49>>
    /\ read_result = Ok(value)

(***************************************************************************)
(* C3                                                                      *)
(***************************************************************************)
\* The text of the column at the start of the record.
ColumnText == from_utf8_lossy(SubSeq(source, 1, field_info.field_length))

AllWhitespace(cs) == \A i \in 1..Len(cs) : is_whitespace(CodePoint(cs[i]))

\* Whether the text is blank: nothing but white space.
IsBlankText(text) == AllWhitespace(Chars(text))

UnsignedDigits(t) == AllDigits(t) /\ t # <<>>

\* Whether the text, white space around it aside, is an unsigned decimal
\* number (with an optional '+').
IsIndexText(text) ==
    \E a \in 1..Len(text), b \in 1..Len(text) :
        /\ a <= b
        /\ IsBlankText(SubSeq(text, 1, a - 1))
        /\ IsBlankText(SubSeq(text, b + 1, Len(text)))
        /\ \/ UnsignedDigits(SubSeq(text, a, b))
           \/ (text[a] = 43 /\ UnsignedDigits(SubSeq(text, a + 1, b)))

MemoReadWithoutReader ==
    /\ pc = "read"
    /\ field_info.field_type = "Memo"
    /\ memo_reader = None

C3_TextIndex(text) ==
    IF IsBlankText(text) THEN read_result = Ok(FieldValue("Memo", <<>>))
    ELSE IF IsIndexText(text) THEN read_result = Err("MissingMemoFile")
    ELSE read_result = Err("ParseIntError")

BlockSize == memo_reader.v.header.block_size

\* The last read_data_at call read the stream at this offset.
LastOffset == IF last_call.sought.tag = "Some" THEN last_call.sought.v ELSE -1

\* The length word and the payload of the prefixed block after the header.
LengthWord ==
    IF memo_type = "FoxBaseMemo"
        THEN BigEndian(SubSeq(memo_file, HeaderLen + 5, HeaderLen + 8))
        ELSE LittleEndian(SubSeq(memo_file, HeaderLen + 5, HeaderLen + 8))

Payload == SubSeq(memo_file, HeaderLen + 9, HeaderLen + 8 + LengthWord)

\* read_data_at read the data block of a prefixed layout, the stream
\* holding the block's LengthWord payload bytes and not failing.
PrefixedDataRead(mtype) ==
    /\ memo_type = mtype
    /\ pc \in {"open", "panicked"}
    /\ calls > 0
    /\ last_call.fault = "none"
    /\ BlockSize > 0
    /\ LastOffset = HeaderLen
    /\ Len(memo_file) >= HeaderLen + 8
    /\ Len(memo_file) >= HeaderLen + 8 + LengthWord

\* C4: in the classic layout a failed block read is tolerated (the call
\* returns Ok) only when the failure is end of stream and index ==
\* next_available_block_index - 1; every other failed read is returned as an
\* error.
C4_ClassicTolerance ==
    (/\ memo_type = "DbaseMemo"
     /\ pc = "open"
     /\ calls > 0
     /\ memo_reader.v.header.next_available_block_index > 0
     /\ last_call.fault # "seek"
     /\ (last_call.fault = "read" \/ Len(memo_file) < LastOffset + BlockSize))
        => IF /\ last_call.fault = "none"
              /\ last_call.index = memo_reader.v.header.next_available_block_index - 1
               THEN memo_result.tag = "Ok"
               ELSE memo_result.tag = "Err"

\* r is p cut before its first 0x1F, all of p when it has none.
IsCutAtTerminator(r, p) ==
    /\ Len(r) <= Len(p)
    /\ r = SubSeq(p, 1, Len(r))
    /\ \A i \in 1..Len(r) : r[i] # 31
    /\ (Len(r) = Len(p) \/ p[Len(r) + 1] = 31)

\* C5: in the dBase-memo-4 layout read_data_at on a block whose length word
\* is L returns the payload bytes before the first 0x1F among the L payload
\* bytes, and exactly the L payload bytes when there is none, for L smaller
\* and larger than block_size too.
C5_Dbase4Payload ==
    PrefixedDataRead("DbaseMemo4")
        => (memo_result.tag = "Ok" /\ IsCutAtTerminator(memo_result.v, Payload))

\* r is p without its trailing zero bytes.
IsZeroTrimOf(r, p) ==
    /\ Len(r) <= Len(p)
    /\ r = SubSeq(p, 1, Len(r))
    /\ (r = <<>> \/ r[Len(r)] # 0)
    /\ \A i \in (Len(r) + 1)..Len(p) : p[i] = 0

\* C6: in the FoxBase layout read_data_at on a block whose length word is L
\* returns the L payload bytes without their trailing zero bytes (interior
\* zero bytes kept; empty when all are zero or L = 0), also when L is larger
\* than block_size, the scratch buffer growing to L bytes.
C6_FoxBaseTrim ==
    PrefixedDataRead("FoxBaseMemo")
        => /\ memo_result.tag = "Ok"
           /\ IsZeroTrimOf(memo_result.v, Payload)
           /\ Len(memo_reader.v.internal_buffer) >= LengthWord

C6_Witness ==
    /\ PrefixedDataRead("FoxBaseMemo")
    /\ BlockSize = 2
    /\ LengthWord = 3
    /\ Payload = <<0, 65, 0>>
    /\ memo_result = Ok(<<0, 65>>)

(***************************************************************************)
(* C7                                                                      *)
(***************************************************************************)
\* '1' '0' 'T' 't' 'Y' 'y' are true, 'N' 'n' 'F' 'f' are false, every other
\* byte (' ' and '?' among them) is no-value.
LogicalMeaning(b) ==
    IF b \in {49, 48, 84, 116, 89, 121} THEN Some(TRUE)
    ELSE IF b \in {78, 110, 70, 102} THEN Some(FALSE)
    ELSE None

LogicalByte(v) ==
    IF v.tag = "None" THEN <<63>> ELSE IF v.v THEN <<116>> ELSE <<102>>

\* C7: a Logical column with a byte to read never decodes to an error: the
\* byte decodes to LogicalMeaning of it; and a Logical value is written as
\* 't', 'f' or '?' and decodes from that byte to itself.
C7_LogicalDecode ==
    /\ (pc = "read" /\ field_info.field_type = "Logical" /\ Len(source) >= 1)
           => read_result = Ok(FieldValue("Logical", LogicalMeaning(source[1])))
    /\ (pc \in {"written", "have_record", "read"} /\ value.variant = "Logical")
           => dst = LogicalByte(value.payload)
    /\ (pc = "read" /\ value.variant = "Logical") => read_result = Ok(value)

C7_Witness ==
    /\ pc = "read"
    /\ value = FieldValue("Logical", None)
    /\ source = <<63>>
    /\ read_result = Ok(value)

(***************************************************************************)
(* C8                                                                      *)
(***************************************************************************)
IsAllStars(text) == \A i \in 1..Len(text) : text[i] = 42

C8_Decoded(variant, text) ==
    IF IsBlankText(text) \/ IsAllStars(text)
        THEN read_result = Ok(FieldValue(variant, None))
        ELSE \/ read_result \in {Err("ParseFloatError")}
             \/ /\ read_result.tag = "Ok"
                /\ read_result.v.variant = variant
                /\ read_result.v.payload.tag = "Some"

\* C8: for every field_length a Numeric or Float column whose stored bytes
\* are all blank or all '*' decodes to no-value without an error, and any
\* other stored text to a present value or a parse error, never to no-value.
C8_BlankOrStars ==
    (/\ pc = "read"
     /\ field_info.field_type \in {"Numeric", "Float"}
     /\ Len(source) >= field_info.field_length)
        => C8_Decoded(field_info.field_type, ColumnText)

C8_Witness ==
    /\ pc = "read"
    /\ field_info = [field_type |-> "Float", field_length |-> 3]
    /\ source = <<42, 42, 42>>
    /\ read_result = Ok(FieldValue("Float", None))

(***************************************************************************)
(* C9                                                                      *)
(***************************************************************************)
CharacterRoundTrip ==
    /\ pc = "read"
    /\ value.variant = "Character"
    /\ value.payload.tag = "Some"

\* C9 as stated: every present Character value, written and read back
\* through a column as long as what was written, comes back unchanged.
C9_Original == CharacterRoundTrip => read_result = Ok(value)

EndsAreNotWhitespace(cs) ==
    /\ cs # <<>>
    /\ ~is_whitespace(CodePoint(cs[1]))
    /\ ~is_whitespace(CodePoint(cs[Len(cs)]))

\* C9, amended: every present Character value that is not empty and neither
\* begins nor ends with a white space char, written and read back through a
\* column as long as what was written, comes back unchanged, multi-byte
\* chars included.
C9_CharacterRoundTrip ==
    (CharacterRoundTrip /\ EndsAreNotWhitespace(Chars(value.payload.v)))
        => /\ field_info.field_length = Len(value.payload.v)
           /\ read_result = Ok(value)

C9_Witness ==
    /\ pc = "read"
    /\ value = FieldValue("Character", Some(<<240, 159, 164, 148>>))
    /\ field_info = [field_type |-> "Character", field_length |-> 4]
    /\ read_result = Ok(value)

(***************************************************************************)
(* C10                                                                     *)
(***************************************************************************)
\* C10: Date::new returns a Date exactly when month is in 1..12, day in
\* 1..31 and year in 1900..2155, and Err(InvalidDate) for every other
\* triple, month 0 and day 0 included; on success the Date holds the inputs.
C10_DateNewValidates ==
    pc = "new" =>
        IF InValidatedRange(args)
            THEN new_result = Ok(Date(args.year, args.month, args.day))
            ELSE new_result = Err("InvalidDate")

(***************************************************************************)
(* C11                                                                     *)
(***************************************************************************)
IsEightDigits(text) == Len(text) = 8 /\ AllDigits(text)

\* C11: a Date column whose stored text is not all spaces decodes to a
\* present Date when the text is 8 ASCII digits and to an error otherwise
\* (a group with a char that is no digit, or a text that lacks the full
\* 4/2/2 groups), never to a Date and never with a crash.
C11_DateParseErrors ==
    (/\ pc \in {"read", "panicked"}
     /\ field_info.field_type = "Date"
     /\ Len(source) >= field_info.field_length
     /\ ~chars_all(ColumnText, 32))
        => IF IsEightDigits(ColumnText)
               THEN /\ read_result.tag = "Ok"
                    /\ read_result.v.payload.tag = "Some"
               ELSE read_result.tag = "Err"

(***************************************************************************)
(* C12                                                                     *)
(***************************************************************************)
IsDayWord(w) == w \in 0..86399999

IsDayTime(t) == t.hours < 24 /\ t.minutes < 60 /\ t.seconds < 60

\* The caller held a word of the day and from_word has run on it.
DayWordDecoded ==
    /\ pc \in {"from_word", "word_back"}
    /\ IsDayWord(time_arg.word)

\* C12: for every time word w in 0..86,399,999 from_word gives hours =
\* w / 3,600,000, minutes = (w mod 3,600,000) / 60,000 and seconds =
\* (w mod 60,000) / 1,000, below 24, 60 and 60, and to_time_word of that
\* Time is w - w mod 1,000; for every Time with hours < 24, minutes < 60
\* and seconds < 60, from_word(to_time_word(t)) is t.
C12_TimeWord ==
    /\ DayWordDecoded =>
           /\ time.v.hours = time_arg.word \div 3600000
           /\ time.v.minutes = (time_arg.word % 3600000) \div 60000
           /\ time.v.seconds = (time_arg.word % 60000) \div 1000
           /\ IsDayTime(time.v)
    /\ (DayWordDecoded /\ pc = "word_back") =>
           time_word.v = time_arg.word - (time_arg.word % 1000)
    /\ (pc = "time_back" /\ IsDayTime(time_arg.time)) =>
           time.v = time_arg.time

C12_Witness ==
    /\ pc = "word_back"
    /\ time_arg = [word |-> 86399999]
    /\ time.v = Time(23, 59, 59)
    /\ time_word.v = 86399000

(***************************************************************************)
(* C13                                                                     *)
(***************************************************************************)
\* C13: for every block index and every block size from 1 to 65535,
\* read_data_at(index) whose seek does not fail leaves the stream at exactly
\* index * block_size bytes from its start, the product taken in the
\* integers: the call neither fails on the multiplication nor seeks to the
\* product's low 32 bits.  (o = index * block_size is stated as a division,
\* which stays in range.)
C13_SeekOffset ==
    (/\ pc \in {"open", "panicked"}
     /\ calls > 0
     /\ last_call.fault # "seek"
     /\ BlockSize > 0)
        => /\ last_call.sought.tag = "Some"
           /\ last_call.sought.v % BlockSize = 0
           /\ last_call.sought.v \div BlockSize = last_call.index

(***************************************************************************)
(* C14                                                                     *)
(***************************************************************************)
TextBackedTypes == {"Character", "Numeric", "Float", "Logical", "Date"}

\* read_from returned a value, a no-value or a parse error.
IsDecodeOutcome(r) ==
    \/ r.tag = "Ok"
    \/ (r.tag = "Err" /\ r # EofError /\ r # OtherIoError)

\* C14: FieldValue::read_from on a Character, Numeric, Float, Logical or
\* Date column that returns a value, a no-value or a parse error has advanced
\* the record source by exactly field_info.field_length bytes, whatever the
\* declared field_length.  (Every read of the model starts at offset 0.)
C14_AdvancesFieldLength ==
    (/\ pc = "read"
     /\ field_info.field_type \in TextBackedTypes
     /\ IsDecodeOutcome(read_result))
        => position = field_info.field_length

(***************************************************************************)
(* C15                                                                     *)
(***************************************************************************)
\* What a reader just constructed over the memo stream returns for index
\* when nothing fails: one result for each way the build and read_exact may
\* behave.
FreshResults(index) ==
    {read_data_at(MemoReader_new(memo_type, memo_file).v, memo_file, index,
                  io).result : io \in IoOutcomes({"none"})}

\* C15: after any earlier read_data_at calls on the same reader over a
\* stream that never failed, the bytes read_data_at(index) returns are those
\* a freshly constructed reader returns for that index: they depend only on
\* the stream, the layout and the index, and hold nothing that an earlier
\* call left in the scratch buffer.
C15_NoStaleBytes ==
    (/\ pc \in {"open", "panicked"}
     /\ calls > 0
     /\ last_call.faults = 0)
        => memo_result \in FreshResults(last_call.index)

====
